---- MODULE Spec2Model ----
(***************************************************************************)
(* Attendance-punch ledger of visualcheck: the two writing HTTP handlers   *)
(* (AnalyzeAttireView.post, AdminVerifyAttendanceView.post), the Employee  *)
(* and Attendance tables, the S3 upload and the attire-analysis gateway.   *)
(*                                                                         *)
(* Every handler is split at its database statements and external calls:  *)
(* Django runs each ORM statement in its own autocommit transaction, and   *)
(* several server workers run handlers at the same time.  Spec interleaves *)
(* the workers' steps freely; SeqSpec is a server with a single worker,    *)
(* which serves the requests one after the other.                          *)
(*                                                                         *)
(* Text fields that the code strips are sequences of characters; other     *)
(* strings are TLA+ strings.  The clock is the calendar day; now().date()  *)
(* and auto_now_add are taken to read the same calendar.                   *)
(***************************************************************************)
EXTENDS Integers, Sequences, FiniteSets, TLC

\* ------------------------------------------------------------------ bounds
\* punches are accepted while the Attendance table, with the rows the handlers in
\* flight may still add, stays below MaxRows
MaxRows == 2
MaxDay == 2

Workers == {"w1", "w2"}

\* ------------------------------------------------------------ input domains
NULL == "NULL"

\* the multipart form of a punch.  A file part is missing, a named part of 0
\* bytes ("empty") or a named part with bytes ("image"); an absent text field
\* reads as the empty string
PunchForm(upper_body, full_body, employee_name, employee_id, location, verify_type) ==
    [upper_body |-> upper_body, full_body |-> full_body, employee_name |-> employee_name,
     employee_id |-> employee_id, location |-> location, verify_type |-> verify_type]

GoodForms ==
    { PunchForm("image", "image", <<"A">>, <<"1">>, <<"H">>, "self"),
      PunchForm("image", "image", <<"A">>, <<"1">>, <<"H">>, "admin"),
      PunchForm("image", "image", <<"B", " ">>, <<" ", "1">>, <<"H">>, "self"),
      PunchForm("image", "image", <<"B", " ">>, <<" ", "1">>, <<"H">>, "admin"),
      PunchForm("image", "image", <<"A">>, <<"2">>, <<" ", "H">>, "admin"),
      PunchForm("empty", "image", <<"A">>, <<"2">>, <<"H">>, "self"),
      PunchForm("image", "empty", <<"A">>, <<"2">>, <<"H">>, "admin") }

BadForms ==
    { PunchForm("missing", "image", <<"A">>, <<"1">>, <<"H">>, "self"),
      PunchForm("image", "missing", <<"A">>, <<"1">>, <<"H">>, "admin"),
      PunchForm("image", "image", << >>, <<"1">>, <<"H">>, "self"),
      PunchForm("image", "image", <<"A">>, <<" ">>, <<"H">>, "self"),
      PunchForm("image", "image", <<"A">>, <<"1">>, <<" ", " ">>, "admin") }

PunchForms == GoodForms \cup BadForms

\* request.POST.get("action") / get("admin_name"): NULL is Python's None
VerifyForms ==
    { [action |-> "approve", admin_name |-> "Mgr1"],
      [action |-> "reject", admin_name |-> "Mgr1"],
      [action |-> "approve", admin_name |-> NULL],
      [action |-> NULL, admin_name |-> "Mgr1"] }

ApiOutcomes == {"raises", "json_object", "json_other", "not_json"}

\* ------------------------------------------------------------------- state
VARIABLES
    employees,    \* Employee table: sequence of rows, pk = index
    attendance,   \* Attendance table: sequence of rows, id = index
    today,        \* the calendar day
    pc,           \* per worker: the handler's position ("idle": no request in hand)
    loc,          \* per worker: the handler's local variables
    resp          \* the response just sent (none once the next request is taken up)

vars == <<employees, attendance, today, pc, loc, resp>>

\* -------------------------------------------------------------- pure parts
\* str.strip(): leading and trailing blanks removed
RECURSIVE LStrip(_)
LStrip(s) == IF s # << >> /\ Head(s) = " " THEN LStrip(Tail(s)) ELSE s

RECURSIVE RStrip(_)
RStrip(s) == IF s # << >> /\ s[Len(s)] = " " THEN RStrip(SubSeq(s, 1, Len(s) - 1)) ELSE s

Strip(s) == RStrip(LStrip(s))

\* `not upper_file`: None is falsy; an UploadedFile is truthy whenever it has a
\* name (File.__bool__), whatever its size
FileFalsy(f) == f = "missing"

ValidationError(upper_file, full_file, employee_name, employee_id, location_text) ==
    IF FileFalsy(upper_file) \/ FileFalsy(full_file) THEN "Images required"
    ELSE IF employee_name = << >> \/ employee_id = << >> THEN "Employee details required"
    ELSE IF location_text = << >> THEN "Location required"
    ELSE ""

\* upload_bytes_to_s3: the put either raises or the URL under the folder is returned
UploadSwallowsError(ok, folder) ==
    [raised |-> FALSE, url |-> IF ok THEN folder ELSE NULL]

upload_bytes_to_s3(ok, folder) ==
    IF ok THEN [raised |-> FALSE, url |-> folder]
    ELSE [raised |-> TRUE, url |-> NULL]

InitialStatus(verify_type) ==
    IF verify_type = "self" THEN "SELF_VERIFIED" ELSE "PENDING_ADMIN"

\* analyze_frames_aggregated: frames is the sequence of "does this frame pass
\* _validate_and_resize_image", api what the chat completion does
Take(s, n) == SubSeq(s, 1, IF Len(s) < n THEN Len(s) ELSE n)

analyze_frames_aggregated(frames, api) ==
    IF frames = << >> THEN "no_frames"
    ELSE LET valid_images == SelectSeq(Take(frames, 5), LAMBDA v : v)
         IN  IF valid_images = << >> THEN "error: No valid images to analyze"
             ELSE CASE api = "raises" -> "error: Analysis failed"
                    [] api = "json_object" -> "success"
                    [] api = "json_other" -> "error: Analysis failed"
                    [] OTHER -> "parse_error"

AiPayloads == {"no_frames", "error: No valid images to analyze",
               "error: Analysis failed", "success", "parse_error"}

\* ------------------------------------------------------------------ tables
NoRow ==
    [employee |-> 0, date |-> 0, upper_body_image_url |-> NULL,
     full_body_image_url |-> NULL, location_text |-> << >>, ai_response |-> NULL,
     status |-> "NONE", verified_by |-> NULL, verified_at |-> 0]

\* Attendance.objects.create(...): date is auto_now_add, the nullable columns null
NewAttendance(employee, upper_url, full_url, location_text, status) ==
    [employee |-> employee, date |-> today, upper_body_image_url |-> upper_url,
     full_body_image_url |-> full_url, location_text |-> location_text,
     ai_response |-> NULL, status |-> status, verified_by |-> NULL, verified_at |-> 0]

\* Employee.objects.get(employee_id=...): the pk, 0 for DoesNotExist
EmployeePk(employee_id) ==
    IF \E k \in DOMAIN employees : employees[k].employee_id = employee_id
    THEN CHOOSE k \in DOMAIN employees : employees[k].employee_id = employee_id
    ELSE 0

\* get_or_create(employee_id=..., defaults={"name": ...}): the row it inserts
NewEmployeeWithoutDefaults(employee_id, name) ==
    [employee_id |-> employee_id, name |-> << >>]

NewEmployee(employee_id, name) ==
    [employee_id |-> employee_id, name |-> name]

\* unique=True on Employee.employee_id: the INSERT raises IntegrityError
NoUniqueConstraint(employee_id) == FALSE

UniqueViolation(employee_id) ==
    \E k \in DOMAIN employees : employees[k].employee_id = employee_id

\* Attendance.objects.filter(employee=employee, date=today).exists()
PunchedOnDate(employee, date) ==
    \E i \in DOMAIN attendance : attendance[i].date = date

PunchedToday(employee, date) ==
    \E i \in DOMAIN attendance :
        attendance[i].employee = employee /\ attendance[i].date = date

\* the self-verification assignments to the in-memory row
SelfVerifyKeepsNull(row, ai_response, at) ==
    [row EXCEPT !.ai_response = ai_response, !.verified_at = at]

SelfVerify(row, ai_response, at) ==
    [row EXCEPT !.ai_response = ai_response, !.verified_by = "SELF", !.verified_at = at]

\* the admin handler's guard and assignments
PendingOrRejected(row) == row.status \in {"PENDING_ADMIN", "REJECTED"}

IsPending(row) == row.status = "PENDING_ADMIN"

Decide(row, action, admin_name, at) ==
    [row EXCEPT !.status = IF action = "approve" THEN "ADMIN_VERIFIED" ELSE "REJECTED",
                !.verified_by = admin_name, !.verified_at = at]

\* AdminVerifiedAttendanceView.get / AdminPendingAttendanceView.get: the ids the
\* query selects (the order of the listing is not modelled)
AdminVerifiedRecords ==
    {i \in DOMAIN attendance : attendance[i].status \in {"SELF_VERIFIED", "ADMIN_VERIFIED"}}

AdminPendingRecords ==
    {i \in DOMAIN attendance : attendance[i].status = "PENDING_ADMIN"}

\* ------------------------------------------------------------------ workers
NoLocals ==
    [kind |-> "none", upper_file |-> "none", full_file |-> "none",
     employee_name |-> << >>, employee_id |-> << >>, location_text |-> << >>,
     verify_type |-> "none", upper_body_url |-> NULL, full_body_url |-> NULL,
     employee |-> 0, attendance_id |-> 0, attendance |-> NoRow,
     action |-> NULL, admin_name |-> NULL]

\* JsonResponse: the HTTP status and the error or status text (code 0: none; an
\* uncaught exception is Django's 500)
NoResponse == [code |-> 0, message |-> ""]

Init ==
    /\ employees = << >>
    /\ attendance = << >>
    /\ today = 1
    /\ pc = [p \in Workers |-> "idle"]
    /\ loc = [p \in Workers |-> NoLocals]
    /\ resp = NoResponse

\* the handler returns (or raises): its locals are gone, the response is out
Return(p, code, message) ==
    /\ pc' = [pc EXCEPT ![p] = "idle"]
    /\ loc' = [loc EXCEPT ![p] = NoLocals]
    /\ resp' = [code |-> code, message |-> message]

\* rows the handlers in flight may still add
PunchesInFlight == Cardinality({q \in Workers : loc[q].kind = "punch"})

\* AnalyzeAttireView.post, lines 22-60: read the request, validate, upload both
\* images (no database statement yet)
PunchStart(p) ==
    /\ pc[p] = "idle"
    /\ Len(attendance) + PunchesInFlight < MaxRows
    /\ \E form \in PunchForms :
         LET employee_name == Strip(form.employee_name)
             employee_id == Strip(form.employee_id)
             location_text == Strip(form.location)
             error == ValidationError(form.upper_body, form.full_body, employee_name,
                                      employee_id, location_text)
         IN  IF error # "" THEN Return(p, 400, error)
             ELSE \E upper_ok \in BOOLEAN, full_ok \in BOOLEAN :
                LET upper == upload_bytes_to_s3(upper_ok, "attendance/upper")
                    full == upload_bytes_to_s3(full_ok, "attendance/full")
                IN  IF upper.raised \/ full.raised THEN Return(p, 500, "StorageError")
                    ELSE /\ pc' = [pc EXCEPT ![p] = "get_employee"]
                         /\ loc' = [loc EXCEPT ![p] =
                               [NoLocals EXCEPT !.kind = "punch",
                                   !.upper_file = form.upper_body,
                                   !.full_file = form.full_body,
                                   !.employee_name = employee_name,
                                   !.employee_id = employee_id,
                                   !.location_text = location_text,
                                   !.verify_type = form.verify_type,
                                   !.upper_body_url = upper.url,
                                   !.full_body_url = full.url]]
                         /\ resp' = NoResponse
    /\ UNCHANGED <<employees, attendance, today>>

\* lines 63-66, get_or_create: the SELECT
GetEmployee(p) ==
    /\ pc[p] = "get_employee"
    /\ LET k == EmployeePk(loc[p].employee_id)
       IN  IF k # 0
           THEN /\ pc' = [pc EXCEPT ![p] = "check_punched"]
                /\ loc' = [loc EXCEPT ![p].employee = k]
           ELSE /\ pc' = [pc EXCEPT ![p] = "create_employee"]
                /\ UNCHANGED loc
    /\ UNCHANGED <<employees, attendance, today, resp>>

\* lines 63-66, get_or_create: the INSERT with defaults, or on IntegrityError the
\* SELECT again
CreateEmployee(p) ==
    /\ pc[p] = "create_employee"
    /\ IF UniqueViolation(loc[p].employee_id)
       THEN /\ loc' = [loc EXCEPT ![p].employee = EmployeePk(loc[p].employee_id)]
            /\ UNCHANGED employees
       ELSE /\ employees' = Append(employees,
                NewEmployee(loc[p].employee_id, loc[p].employee_name))
            /\ loc' = [loc EXCEPT ![p].employee = Len(employees) + 1]
    /\ pc' = [pc EXCEPT ![p] = "check_punched"]
    /\ UNCHANGED <<attendance, today, resp>>

\* lines 69-76
CheckPunched(p) ==
    /\ pc[p] = "check_punched"
    /\ IF PunchedToday(loc[p].employee, today)
       THEN Return(p, 400, "Already punched today")
       ELSE /\ pc' = [pc EXCEPT ![p] = "create_attendance"]
            /\ UNCHANGED <<loc, resp>>
    /\ UNCHANGED <<employees, attendance, today>>

\* lines 79-85, and for an admin punch the response of lines 102-111
CreateAttendance(p) ==
    /\ pc[p] = "create_attendance"
    /\ LET row == NewAttendance(loc[p].employee, loc[p].upper_body_url,
                                loc[p].full_body_url, loc[p].location_text,
                                InitialStatus(loc[p].verify_type))
           id == Len(attendance) + 1
       IN  /\ attendance' = Append(attendance, row)
           /\ IF loc[p].verify_type = "self"
              THEN /\ pc' = [pc EXCEPT ![p] = "analyze"]
                   /\ loc' = [loc EXCEPT ![p].attendance_id = id, ![p].attendance = row]
                   /\ UNCHANGED resp
              ELSE Return(p, 200, row.status)
    /\ UNCHANGED <<employees, today>>

\* lines 88-111: the gateway call, the assignments, save() of the whole row
AnalyzeAndSave(p) ==
    /\ pc[p] = "analyze"
    /\ \E upper_ok \in BOOLEAN, full_ok \in BOOLEAN, api \in ApiOutcomes :
         /\ loc[p].upper_file = "empty" => ~upper_ok
         /\ loc[p].full_file = "empty" => ~full_ok
         /\ LET ai_response == analyze_frames_aggregated(<<upper_ok, full_ok>>, api)
                row == SelfVerify(loc[p].attendance, ai_response, today)
            IN  /\ attendance' = [attendance EXCEPT ![loc[p].attendance_id] = row]
                /\ Return(p, 200, row.status)
    /\ UNCHANGED <<employees, today>>

\* AdminVerifyAttendanceView.post, lines 133-147: read the row, check, assign
VerifyStart(p) ==
    /\ pc[p] = "idle"
    /\ \E attendance_id \in 1..(Len(attendance) + 1), form \in VerifyForms :
         IF attendance_id \notin DOMAIN attendance
         THEN Return(p, 500, "DoesNotExist")
         ELSE IF ~IsPending(attendance[attendance_id])
         THEN Return(p, 400, "Already verified")
         ELSE /\ pc' = [pc EXCEPT ![p] = "verify_save"]
              /\ loc' = [loc EXCEPT ![p] =
                    [NoLocals EXCEPT !.kind = "verify", !.attendance_id = attendance_id,
                        !.action = form.action, !.admin_name = form.admin_name,
                        !.attendance = Decide(attendance[attendance_id], form.action,
                                              form.admin_name, today)]]
              /\ resp' = NoResponse
    /\ UNCHANGED <<employees, attendance, today>>

\* lines 148-150: save() of the whole row
VerifySave(p) ==
    /\ pc[p] = "verify_save"
    /\ attendance' = [attendance EXCEPT ![loc[p].attendance_id] = loc[p].attendance]
    /\ Return(p, 200, loc[p].attendance.status)
    /\ UNCHANGED <<employees, today>>

\* midnight
AdvanceDay ==
    /\ today < MaxDay
    /\ today' = today + 1
    /\ UNCHANGED <<employees, attendance, pc, loc, resp>>

Step(p) ==
    \/ GetEmployee(p)
    \/ CreateEmployee(p)
    \/ CheckPunched(p)
    \/ CreateAttendance(p)
    \/ AnalyzeAndSave(p)
    \/ VerifySave(p)

Next ==
    \/ \E p \in Workers : PunchStart(p) \/ VerifyStart(p) \/ Step(p)
    \/ AdvanceDay

Spec == Init /\ [][Next]_vars

\* a single worker: requests are served one after the other
SeqNext ==
    \/ \E p \in {"w1"} : PunchStart(p) \/ VerifyStart(p) \/ Step(p)
    \/ AdvanceDay

SeqSpec == Init /\ [][SeqNext]_vars

\* ================================================================== claims
EmployeeIdOf(i) == employees[attendance[i].employee].employee_id

Changed(p) == pc'[p] # pc[p]

DuplicateResponse == [code |-> 400, message |-> "Already punched today"]

\* C1: in sequential executions the ledger never holds two punches of one employee
\* id on one date; a punch that reaches the duplicate check when a row for its
\* employee and today exists fails with "Already punched today" and leaves the
\* rows as they are, and otherwise (the first punch) goes on to create exactly one
\* row for that employee and date and does not fail.
C1_OnePunchPerDay ==
    /\ [](\A i, j \in DOMAIN attendance :
            (EmployeeIdOf(i) = EmployeeIdOf(j) /\ attendance[i].date = attendance[j].date)
                => i = j)
    /\ [][\A p \in Workers :
            /\ (pc[p] = "check_punched" /\ Changed(p)) =>
                 IF \E i \in DOMAIN attendance :
                        /\ EmployeeIdOf(i) = loc[p].employee_id
                        /\ attendance[i].date = today
                 THEN /\ resp' = DuplicateResponse
                      /\ pc'[p] = "idle"
                      /\ attendance' = attendance
                 ELSE pc'[p] = "create_attendance"
            /\ (pc[p] = "create_attendance" /\ Changed(p)) =>
                 /\ Len(attendance') = Len(attendance) + 1
                 /\ employees[attendance'[Len(attendance')].employee].employee_id
                        = loc[p].employee_id
                 /\ attendance'[Len(attendance')].date = today
                 /\ pc'[p] \in {"analyze", "idle"}
                 /\ pc'[p] = "idle" => resp'.code = 200
                 /\ \A i \in DOMAIN attendance : attendance'[i] = attendance[i]
       ]_vars

\* C1 witness: one punch is recorded and a second one for the same employee on
\* the same day has just been refused
C1_Witness ==
    /\ resp = DuplicateResponse
    /\ Len(attendance) = 1
    /\ attendance[1].date = today

\* C2: no interleaving of punch requests reaches two rows for one employee and date
C2_ConcurrentPunchesExclusive ==
    \A i \in DOMAIN attendance : \A j \in DOMAIN attendance :
        i # j => ~(/\ attendance[i].employee = attendance[j].employee
                   /\ attendance[i].date = attendance[j].date)

Decided == {"ADMIN_VERIFIED", "REJECTED"}

\* C3: in sequential executions a decision goes ahead only on a PENDING_ADMIN punch
\* and still finds it pending when it saves; a punch that is not pending keeps its
\* status for ever, a decided punch keeps its whole row, and the refusal "Already
\* verified" changes no row.
C3_DecisionOnlyFromPending ==
    [][/\ \A p \in Workers :
            /\ (pc[p] = "idle" /\ pc'[p] = "verify_save") =>
                  attendance[loc'[p].attendance_id].status = "PENDING_ADMIN"
            /\ (pc[p] = "verify_save" /\ Changed(p)) =>
                  attendance[loc[p].attendance_id].status = "PENDING_ADMIN"
       /\ \A i \in DOMAIN attendance :
            /\ attendance[i].status # "PENDING_ADMIN" =>
                  attendance'[i].status = attendance[i].status
            /\ attendance[i].status \in Decided => attendance'[i] = attendance[i]
       /\ (resp' = [code |-> 400, message |-> "Already verified"] /\ resp' # resp) =>
            attendance' = attendance
      ]_vars

\* C3 witness: a decided punch exists and a further decision has just been refused
C3_Witness ==
    /\ resp = [code |-> 400, message |-> "Already verified"]
    /\ \E i \in DOMAIN attendance :
          attendance[i].status \in Decided /\ attendance[i].verified_by = "Mgr1"

\* C4: under any interleaving a decided punch is never written again: its status,
\* verified_by and verified_at stay as the first decision set them
C4_DecisionWrittenOnce ==
    [][\A i \in DOMAIN attendance :
          attendance[i].status \in Decided =>
              /\ attendance'[i].status = attendance[i].status
              /\ attendance'[i].verified_by = attendance[i].verified_by
              /\ attendance'[i].verified_at = attendance[i].verified_at]_vars

\* C5: a self punch that passed the duplicate check persists its row and then
\* returns 200 with that row SELF_VERIFIED, verified_by "SELF", verified_at set and
\* ai_response one of the gateway's payloads, structured or failure; no row is
\* removed and the request does not fail.
C5_SelfPunchVerified ==
    [][\A p \in Workers :
          (loc[p].kind = "punch" /\ loc[p].verify_type = "self" /\ Changed(p)) =>
              /\ pc[p] = "create_attendance" =>
                    /\ pc'[p] = "analyze"
                    /\ Len(attendance') = Len(attendance) + 1
                    /\ loc'[p].attendance_id = Len(attendance')
                    /\ attendance'[Len(attendance')].status = "SELF_VERIFIED"
              /\ pc[p] = "analyze" =>
                    /\ pc'[p] = "idle"
                    /\ resp' = [code |-> 200, message |-> "SELF_VERIFIED"]
                    /\ Len(attendance') = Len(attendance)
                    /\ LET row == attendance'[loc[p].attendance_id]
                       IN  /\ row.status = "SELF_VERIFIED"
                           /\ row.verified_by = "SELF"
                           /\ row.verified_at # 0
                           /\ row.ai_response \in AiPayloads
                           /\ row.employee = loc[p].employee
      ]_vars

\* C5 witness: a self punch has returned 200 although the gateway failed
C5_Witness ==
    /\ resp = [code |-> 200, message |-> "SELF_VERIFIED"]
    /\ \E i \in DOMAIN attendance :
          /\ attendance[i].status = "SELF_VERIFIED"
          /\ attendance[i].verified_by = "SELF"
          /\ attendance[i].ai_response = "error: Analysis failed"

StorageError == [code |-> 500, message |-> "StorageError"]

\* C6: the step in which a punch fails with the storage error changes neither
\* table; a handler reaches its database statements only with both URLs, and every
\* Attendance row has both image URLs.
C6_NoRowWithoutUploads ==
    /\ [](\A i \in DOMAIN attendance :
            /\ attendance[i].upper_body_image_url # NULL
            /\ attendance[i].full_body_image_url # NULL)
    /\ [](\A p \in Workers :
            loc[p].kind = "punch" =>
                loc[p].upper_body_url # NULL /\ loc[p].full_body_url # NULL)
    /\ [][(resp' = StorageError /\ resp' # resp) =>
            (attendance' = attendance /\ employees' = employees)]_vars

\* C6 witness: a punch is recorded and a later request has just failed in the upload
C6_Witness ==
    /\ resp = StorageError
    /\ Len(attendance) = 1
    /\ attendance[1].upper_body_image_url = "attendance/upper"
    /\ \A p \in Workers : pc[p] = "idle"

\* C7: the Employee table never holds two rows with one employee_id; a row, once
\* written, keeps its name; a new row carries the name of the request that
\* created it, the first to reference the id; and every handler past get_or_create
\* holds the row of its employee_id.
C7_OneEmployeeFirstName ==
    /\ [](\A k \in DOMAIN employees : \A m \in DOMAIN employees :
            employees[k].employee_id = employees[m].employee_id => k = m)
    /\ [](\A p \in Workers :
            pc[p] \in {"check_punched", "create_attendance", "analyze"} =>
                /\ loc[p].employee \in DOMAIN employees
                /\ employees[loc[p].employee].employee_id = loc[p].employee_id)
    /\ [][/\ \A k \in DOMAIN employees :
                k \in DOMAIN employees' /\ employees'[k] = employees[k]
          /\ Len(employees') <= Len(employees) + 1
          /\ Len(employees') = Len(employees) + 1 =>
                \E p \in Workers :
                    /\ pc[p] = "create_employee"
                    /\ employees'[Len(employees')] =
                          [employee_id |-> loc[p].employee_id,
                           name |-> loc[p].employee_name]
                    /\ \A k \in DOMAIN employees :
                          employees[k].employee_id # loc[p].employee_id
         ]_vars

\* C7 witness: a punch naming employee 1 "B" has resolved to the row created as "A"
C7_Witness ==
    \E p \in Workers :
        /\ pc[p] = "check_punched"
        /\ loc[p].employee_name = <<"B">>
        /\ employees[loc[p].employee] = [employee_id |-> <<"1">>, name |-> <<"A">>]
        /\ Len(employees) = 1

\* C8: a decision goes ahead only with action approve or reject and an admin name;
\* a decided punch has verified_by and verified_at set, and a punch becomes
\* REJECTED only through action reject
C8_DecisionInputsChecked ==
    /\ \A p \in Workers :
          pc[p] = "verify_save" =>
              /\ loc[p].action \in {"approve", "reject"}
              /\ loc[p].admin_name # NULL
              /\ loc[p].attendance.status = "REJECTED" => loc[p].action = "reject"
    /\ \A i \in DOMAIN attendance :
          attendance[i].status \in Decided =>
              attendance[i].verified_by # NULL /\ attendance[i].verified_at # 0

\* C9: in every state, every SELF_VERIFIED punch that the verified listing selects
\* has verified_by and verified_at set and an assessment stored
C9_SelfVerifiedComplete ==
    \A i \in AdminVerifiedRecords :
        attendance[i].status = "SELF_VERIFIED" =>
            /\ attendance[i].verified_by # NULL
            /\ attendance[i].verified_at # 0
            /\ attendance[i].ai_response # NULL

\* C10: a punch gets past validation (to the uploads and the database) only with
\* both images present and non-empty and with non-blank name, id and location
C10_InvalidPunchRejectedFirst ==
    \A p \in Workers :
        loc[p].kind = "punch" =>
            /\ loc[p].upper_file = "image"
            /\ loc[p].full_file = "image"
            /\ loc[p].employee_name # << >>
            /\ loc[p].employee_id # << >>
            /\ loc[p].location_text # << >>

\* C11: a decision on a punch id that is not in the ledger ends as a client error
\* (a 4xx response, like "Already verified"), not as a server error
C11_UnknownPunchIsClientError ==
    resp.message = "DoesNotExist" => resp.code \in 400..499

====
